---- MODULE Spec2Model ----
(***************************************************************************)
(* A model of extension_helpers/setup_helpers.py: the module-level state   *)
(* (_module_state), add_exclude_packages, find_packages, get_package_info, *)
(* iter_setup_packages, iter_pyx_files, get_cython_extensions and          *)
(* pkg_config.                                                             *)
(*                                                                         *)
(* Strings are sequences of atoms.  The atoms "." and "/" are the dot and  *)
(* the path separator, so 'lib/yoda/luke/dagobah.pyx' is                   *)
(* <<"lib","/","yoda","/","luke","/","dagobah",".","pyx">> and the dotted   *)
(* package name 'yoda.luke' is <<"yoda",".","luke">>.  Every other atom    *)
(* stands for a run of characters holding neither a dot nor a separator.   *)
(***************************************************************************)
EXTENDS Integers, Sequences, FiniteSets, TLC

VARIABLES
    exclude_packages,   \* _module_state['exclude_packages']
    excludes_too_late,  \* _module_state['excludes_too_late']
    package_cache,      \* _module_state['package_cache']
    helpers_called,     \* history: find_packages or get_package_info was called
    fs,                 \* which source tree lies under each source directory
    call                \* the most recent call: its operation, arguments and outcome

vars == <<exclude_packages, excludes_too_late, package_cache, helpers_called, fs, call>>

----------------------------------------------------------------------------
(* Bounds of the model. *)

\* The largest number of names handed to one add_exclude_packages call.
MaxExcludes == 1
\* The largest number of previously declared extensions handed to a direct
\* get_cython_extensions call.
MaxPrev == 1
\* The largest number of tokens in the output of pkg-config.
MaxTokens == 2

----------------------------------------------------------------------------
(* Sequences and strings. *)

Range(s) == {s[i] : i \in DOMAIN s}

SeqsUpTo(S, n) == UNION {[1..k -> S] : k \in 0..n}

\* s[:-n]
DropLast(s, n) == SubSeq(s, 1, Len(s) - n)

\* s[n:]
DropFirst(s, n) == SubSeq(s, n + 1, Len(s))

\* s.endswith(suffix)
EndsWith(s, suffix) ==
    /\ Len(s) >= Len(suffix)
    /\ SubSeq(s, Len(s) - Len(suffix) + 1, Len(s)) = suffix

\* s.startswith(prefix)
StartsWith(s, prefix) ==
    /\ Len(s) >= Len(prefix)
    /\ SubSeq(s, 1, Len(prefix)) = prefix

\* The position of the last occurrence of atom c in s, 0 when there is none.
RECURSIVE LastIndexOf(_, _)
LastIndexOf(s, c) ==
    IF s = <<>> THEN 0
    ELSE IF s[Len(s)] = c THEN Len(s)
    ELSE LastIndexOf(DropLast(s, 1), c)

\* s.split(sep): the pieces between the occurrences of the atom sep; i is the
\* position of the last one.
RECURSIVE Split(_, _)
RECURSIVE SplitAt(_, _, _)
SplitAt(s, sep, i) ==
    IF i = 0 THEN <<s>>
    ELSE Append(Split(SubSeq(s, 1, i - 1), sep), DropFirst(s, i))

Split(s, sep) == SplitAt(s, sep, LastIndexOf(s, sep))

\* sep.join(pieces)
RECURSIVE Join(_, _)
Join(sep, pieces) ==
    IF pieces = <<>> THEN <<>>
    ELSE IF Len(pieces) = 1 THEN pieces[1]
    ELSE Join(sep, DropLast(pieces, 1)) \o <<sep>> \o pieces[Len(pieces)]

\* The number of characters of each atom that occurs in a package name.
CharLen(atom) ==
    CASE atom = "yoda" -> 4
      [] atom = "luke" -> 4
      [] atom = "eva" -> 3
      [] atom = "pkg" -> 3
      [] atom = "sub" -> 3
      [] atom = "tiny" -> 4
      [] OTHER -> 1

\* len(s), in characters
RECURSIVE StrLen(_)
StrLen(s) == IF s = <<>> THEN 0 ELSE CharLen(s[1]) + StrLen(DropFirst(s, 1))

\* os.path.join(a, b, ...) of non-empty relative paths
PathJoin(parts) == Join("/", parts)

\* The components of a path with the '.' components dropped: what both
\* os.path.relpath and os.path.realpath do to the paths of this model, which
\* hold no '..' and no symbolic links.
NormParts(p) == SelectSeq(Split(p, "/"), LAMBDA c : c # <<".">>)

\* os.path.relpath(p), p relative to the working directory
RelPathOf(parts) == IF parts = <<>> THEN <<".">> ELSE PathJoin(parts)

RelPath(p) == RelPathOf(NormParts(p))

\* os.path.realpath(p): the absolute path, under the working directory
RealPath(p) == <<"/", "cwd">> \o Join("/", <<<<>>>> \o NormParts(p))

\* os.path.splitext(p)[0]: p up to the last dot of its last component, unless
\* that dot starts the component.
SplitExtAt(p, slash, dot) == IF dot > slash + 1 THEN SubSeq(p, 1, dot - 1) ELSE p

SplitExtRoot(p) == SplitExtAt(p, LastIndexOf(p, "/"), LastIndexOf(p, "."))

----------------------------------------------------------------------------
(* The file system: source trees and the directories they lie under. *)

InitPy == <<"__init__", ".", "py">>
SetupPackagePy == <<"setup_package", ".", "py">>
PyxSuffix == <<".", "pyx">>
CSuffix == <<".", "c">>
CppSuffix == <<".", "cpp">>

\* The source directories get_package_info and find_packages are called on,
\* relative to the working directory: the default '.' and a subdirectory.
SrcDirs == {<<".">>, <<"lib">>}

\* A setup_package.py module: the functions it defines and what they return.
\* The sources of its extensions are written relative to the root of the tree.
NoDict == <<>>

\* The package of test_cython_autoextensions: yoda/__init__.py,
\* yoda/luke/__init__.py and yoda/luke/dagobah.pyx, no setup_package.py.
TreeYoda ==
    [ walk    |-> << <<"yoda">>, <<"yoda", "/", "luke">> >>,
      files   |-> ( <<"yoda">> :> << InitPy >> )
                  @@ ( <<"yoda", "/", "luke">> :>
                          << InitPy, <<"dagobah", ".", "pyx">> >> ),
      modules |-> <<>>,
      cfg     |-> [exists |-> FALSE, has_package_data |-> FALSE,
                   package_data |-> NoDict] ]

\* The package of the extension_test_package fixture: exthtest_eva with
\* unit01.c and unit02.pyx, both declared by its setup_package.py.
TreeEva ==
    [ walk    |-> << <<"eva">> >>,
      files   |-> ( <<"eva">> :> << InitPy, SetupPackagePy,
                                    <<"unit01", ".", "c">>,
                                    <<"unit02", ".", "pyx">> >> ),
      modules |-> ( <<"eva">> :>
                      [ funcs |-> {"get_extensions"},
                        build_options |-> <<>>,
                        external_libraries |-> <<>>,
                        extensions |-> <<
                          [ name |-> <<"eva", ".", "unit01">>,
                            sources |-> << <<"eva", "/", "unit01", ".", "c">> >> ],
                          [ name |-> <<"eva", ".", "unit02">>,
                            sources |-> << <<"eva", "/", "unit02", ".", "pyx">> >> ] >>,
                        package_data |-> NoDict ] ),
      cfg     |-> [exists |-> TRUE, has_package_data |-> FALSE,
                   package_data |-> NoDict] ]

\* A package using every hook of get_package_info's docstring: pkg and pkg.sub
\* each with a setup_package.py, plus two directories without __init__.py
\* (docs at the top, pkg/data inside the package) that hold .pyx files.
\*   pkg/core.pyx   is declared through its generated pkg/core.c,
\*   pkg/fast.pyx   is listed by a 'skip_cython' placeholder,
\*   pkg/wrap.pyx   is listed by an extension of pkg and by one of pkg.sub,
\*   pkg/sub/util.pyx is declared nowhere.
TreeMixed ==
    [ walk    |-> << <<"pkg">>, <<"docs">>, <<"pkg", "/", "sub">>,
                     <<"pkg", "/", "data">> >>,
      files   |-> ( <<"pkg">> :> << InitPy, SetupPackagePy,
                                    <<"core", ".", "pyx">>,
                                    <<"fast", ".", "pyx">>,
                                    <<"wrap", ".", "pyx">>,
                                    <<"notes", ".", "txt">> >> )
                  @@ ( <<"docs">> :> << <<"demo", ".", "pyx">> >> )
                  @@ ( <<"pkg", "/", "sub">> :>
                          << InitPy, SetupPackagePy, <<"util", ".", "pyx">>,
                             <<"helper", ".", "c">> >> )
                  @@ ( <<"pkg", "/", "data">> :> << <<"raw", ".", "pyx">> >> ),
      modules |-> ( <<"pkg">> :>
                      [ funcs |-> {"get_build_options", "get_external_libraries",
                                   "get_extensions", "get_package_data"},
                        build_options |-> << "opt_a" >>,
                        external_libraries |-> << "expat" >>,
                        extensions |-> <<
                          [ name |-> <<"pkg", ".", "core">>,
                            sources |-> << <<"pkg", "/", "core", ".", "c">> >> ],
                          [ name |-> <<"skip_cython">>,
                            sources |-> << <<"pkg", "/", "fast", ".", "pyx">> >> ],
                          [ name |-> <<"pkg", ".", "wrap">>,
                            sources |-> << <<"pkg", "/", "wrap", ".", "pyx">> >> ] >>,
                        package_data |-> ("pkg" :> "pkg_files") ] )
                  @@ ( <<"pkg", "/", "sub">> :>
                      [ funcs |-> {"get_build_options", "get_extensions",
                                   "get_package_data"},
                        build_options |-> << "opt_b" >>,
                        external_libraries |-> << "wcs" >>,
                        extensions |-> <<
                          [ name |-> <<"pkg", ".", "sub", ".", "wrapper">>,
                            sources |-> <<
                              <<"pkg", "/", "wrap", ".", "pyx">>,
                              <<"pkg", "/", "sub", "/", "helper", ".", "c">> >> ] >>,
                        package_data |-> ("pkg" :> "sub_files")
                                         @@ ("pkg.sub" :> "sub_own") ] ),
      cfg     |-> [exists |-> TRUE, has_package_data |-> TRUE,
                   package_data |-> ("pkg" :> "cfg_files")
                                    @@ ("extra" :> "cfg_extra")] ]

\* A package whose only declaration is a 'skip_cython' placeholder for its
\* only .pyx file: nothing is left to build.
TreeTiny ==
    [ walk    |-> << <<"tiny">> >>,
      files   |-> ( <<"tiny">> :> << InitPy, SetupPackagePy,
                                     <<"gen", ".", "pyx">> >> ),
      modules |-> ( <<"tiny">> :>
                      [ funcs |-> {"get_extensions", "get_external_libraries"},
                        build_options |-> <<>>,
                        external_libraries |-> << "erfa" >>,
                        extensions |-> <<
                          [ name |-> <<"skip_cython">>,
                            sources |-> << <<"tiny", "/", "gen", ".", "pyx">> >> ] >>,
                        package_data |-> NoDict ] ),
      cfg     |-> [exists |-> FALSE, has_package_data |-> FALSE,
                   package_data |-> NoDict] ]

Trees == {TreeYoda, TreeEva, TreeMixed, TreeTiny}

\* The tree under a source directory.
Tree(srcdir) == fs[srcdir]

\* Where a path relative to the working directory lies: the source directory
\* it is under and its path inside that tree (<<>> for the tree's root).
LocateParts(parts) ==
    IF parts # <<>> /\ parts[1] = <<"lib">>
    THEN [srcdir |-> <<"lib">>, dir |-> PathJoin(DropFirst(parts, 1))]
    ELSE [srcdir |-> <<".">>, dir |-> PathJoin(parts)]

Locate(p) == LocateParts(NormParts(p))

\* os.listdir(p), files only, in listing order; none when p is no directory
ListFilesAt(loc) ==
    IF loc.dir \in DOMAIN Tree(loc.srcdir).files
    THEN Tree(loc.srcdir).files[loc.dir]
    ELSE <<>>

ListFiles(p) == ListFilesAt(Locate(p))

\* os.path.isdir(p)
IsDirAt(loc) == loc.dir = <<>> \/ loc.dir \in DOMAIN Tree(loc.srcdir).files

IsDir(p) == IsDirAt(Locate(p))

\* os.path.isfile(os.path.join(p, fn))
IsFile(p, fn) == fn \in Range(ListFiles(p))

\* utils.walk_skip_hidden(top), top a path below a source directory: os.walk
\* top down, one (dirpath, filenames) entry per directory at or below top,
\* top first; nothing when top is no directory.  The trees hold no hidden
\* entries.
WalkEntries(top, loc, below) ==
    [ i \in 1..Len(below) |->
        [ dirpath |-> top \o DropFirst(below[i], Len(loc.dir)),
          filenames |-> Tree(loc.srcdir).files[below[i]] ] ]

WalkFrom(top, loc) ==
    WalkEntries(top, loc,
                SelectSeq(Tree(loc.srcdir).walk,
                          LAMBDA d : d = loc.dir \/ StartsWith(d, loc.dir \o <<"/">>)))

walk_skip_hidden(top) == WalkFrom(top, Locate(top))

\* Concatenation of a sequence of sequences.
RECURSIVE Flatten(_)
Flatten(ss) == IF ss = <<>> THEN <<>> ELSE ss[1] \o Flatten(DropFirst(ss, 1))

----------------------------------------------------------------------------
(* distutils.core.Extension *)

Extension(name, sources, include_dirs) ==
    [ name |-> name, sources |-> sources, include_dirs |-> include_dirs,
      extra_link_args |-> <<>> ]

SkipCython == <<"skip_cython">>

----------------------------------------------------------------------------
(* find_packages and its cache *)

None == [populated |-> FALSE, packages |-> <<>>]
Some(packages) == [populated |-> TRUE, packages |-> packages]

\* setuptools.find_packages(where, exclude): the directories under `where`
\* that hold an __init__.py and whose ancestors up to `where` all do, as
\* dotted names in walk order, without the names in `exclude`.
LooksLikePackage(where, d) == InitPy \in Range(Tree(where).files[d])

ReachedByFinder(where, parts) ==
    \A k \in 1..Len(parts) : LooksLikePackage(where, PathJoin(SubSeq(parts, 1, k)))

DottedNames(dirs) == [i \in 1..Len(dirs) |-> Join(".", Split(dirs[i], "/"))]

ExcludeFrom(packages, exclude) == SelectSeq(packages, LAMBDA pk : pk \notin exclude)

setuptools_find_packages(where, exclude) ==
    ExcludeFrom(DottedNames(SelectSeq(Tree(where).walk,
                    LAMBDA d : ReachedByFinder(where, Split(d, "/")))),
                exclude)

\* find_packages(where, exclude, invalidate_cache) on a module state with the
\* given cache and exclude set: the list returned, the cache and the
\* excludes_too_late flag left behind, and whether the package search ran.
\* The exclude argument only triggers the deprecation warning.
Searched(packages) ==
    [ packages |-> packages, cache |-> Some(packages), searched |-> TRUE,
      excludes_too_late |-> TRUE ]

\* A find_packages that returns a populated cache whatever invalidate_cache is.
FindPackagesCacheFirst(where, invalidate_cache, cache, excludes) ==
    IF cache.populated
    THEN [ packages |-> cache.packages, cache |-> cache, searched |-> FALSE,
           excludes_too_late |-> TRUE ]
    ELSE Searched(setuptools_find_packages(where, excludes))

find_packages(where, invalidate_cache, cache, excludes) ==
    IF ~invalidate_cache /\ cache.populated
    THEN [ packages |-> cache.packages, cache |-> cache, searched |-> FALSE,
           excludes_too_late |-> TRUE ]
    ELSE Searched(setuptools_find_packages(where, excludes))

----------------------------------------------------------------------------
(* iter_setup_packages, iter_pyx_files, get_cython_extensions *)

\* utils.import_file(setup_package): the module of the setup_package.py in
\* directory package_path, its extensions' sources joined to the source
\* directory the module lies under.
MountExtensions(srcdir, m) ==
    [ m EXCEPT !.extensions =
        [ i \in 1..Len(m.extensions) |->
            Extension(m.extensions[i].name,
                      [ j \in 1..Len(m.extensions[i].sources) |->
                          PathJoin(<<srcdir, m.extensions[i].sources[j]>>) ],
                      <<>>) ] ]

ModuleAt(loc) == MountExtensions(loc.srcdir, Tree(loc.srcdir).modules[loc.dir])

import_file(package_path) == ModuleAt(Locate(package_path))

\* os.path.join(srcdir, *package_name.split('.'))
PackagePath(srcdir, package_name) == PathJoin(<<srcdir>> \o Split(package_name, "."))

\* iter_setup_packages(srcdir, packages): for each package in order whose
\* directory holds a setup_package.py, the package name and the module.
ImportSetupPackages(srcdir, with) ==
    [ i \in 1..Len(with) |->
        [ packagename |-> with[i],
          module |-> import_file(PackagePath(srcdir, with[i])) ] ]

iter_setup_packages(srcdir, packages) ==
    ImportSetupPackages(srcdir,
        SelectSeq(packages, LAMBDA packagename :
            IsFile(RelPath(PackagePath(srcdir, packagename)), SetupPackagePy)))

\* The (extmod, fullfn) pairs of the .pyx files among the files of dirpath.
PyxPairs(dirpath, package_name, pyx) ==
    [ i \in 1..Len(pyx) |->
        [ extmod |-> Join(".", <<package_name, DropLast(pyx[i], Len(PyxSuffix))>>),
          fullfn |-> RelPath(PathJoin(<<dirpath, pyx[i]>>)) ] ]

PyxFilesIn(entry, package_name) ==
    PyxPairs(entry.dirpath, package_name,
             SelectSeq(entry.filenames, LAMBDA fn : EndsWith(fn, PyxSuffix)))

\* A loop without the break: the files of every entry of the walk.
EveryEntry(walk, package_name) ==
    Flatten([ i \in 1..Len(walk) |-> PyxFilesIn(walk[i], package_name) ])

\* The loop of iter_pyx_files over the entries of the walk: only the first
\* is read, the loop breaks after it.
FirstEntryOnly(walk, package_name) ==
    IF walk = <<>> THEN <<>> ELSE PyxFilesIn(walk[1], package_name)

\* iter_pyx_files(package_dir, package_name)
iter_pyx_files(package_dir, package_name) ==
    FirstEntryOnly(walk_skip_hidden(package_dir), package_name)

\* s.endswith(('.pyx', '.c', '.cpp'))
IsCythonSource(s) ==
    EndsWith(s, PyxSuffix) \/ EndsWith(s, CSuffix) \/ EndsWith(s, CppSuffix)

\* The suffix-stripped real path a source is compared by.
SourcePath(s) == RealPath(SplitExtRoot(s))

\* A first loop that collects the .pyx sources only.
PyxSourcePathsOnly(prevextensions) ==
    { SourcePath(s) :
        s \in { t \in UNION { Range(prevextensions[i].sources) :
                                i \in 1..Len(prevextensions) } :
                  EndsWith(t, PyxSuffix) } }

\* The first loop of get_cython_extensions: the suffix-stripped real paths of
\* the .pyx, .c and .cpp sources of the extensions in prevextensions.
PrevSourcePaths(prevextensions) ==
    { SourcePath(s) :
        s \in { t \in UNION { Range(prevextensions[i].sources) :
                                i \in 1..Len(prevextensions) } :
                  IsCythonSource(t) } }

\* One extension per (extmod, pyxfn) pair.
NewExtensions(pairs, extincludedirs) ==
    [ i \in 1..Len(pairs) |->
        Extension(pairs[i].extmod, <<pairs[i].fullfn>>, extincludedirs) ]

\* The .pyx files whose suffix-stripped real path is not in prevsourcepaths.
NotDeclared(pairs, prevsourcepaths) ==
    SelectSeq(pairs, LAMBDA f : SourcePath(f.fullfn) \notin prevsourcepaths)

\* The second loop of get_cython_extensions.
DiscoverIn(srcdir, packages, prevsourcepaths, extincludedirs) ==
    Flatten([ p \in 1..Len(packages) |->
        NewExtensions(
            NotDeclared(iter_pyx_files(PackagePath(srcdir, packages[p]), packages[p]),
                        prevsourcepaths),
            extincludedirs) ])

\* get_cython_extensions(srcdir, packages, prevextensions, extincludedirs)
get_cython_extensions(srcdir, packages, prevextensions, extincludedirs) ==
    DiscoverIn(srcdir, packages, PrevSourcePaths(prevextensions), extincludedirs)

----------------------------------------------------------------------------
(* get_package_info *)

\* dict.update(other)
DictUpdate(d, other) ==
    [ k \in DOMAIN d \cup DOMAIN other |->
        IF k \in DOMAIN other THEN other[k] ELSE d[k] ]

\* The package_data of srcdir/setup.cfg: read_configuration's
\* conf['options']['package_data'], {} when the file or the option is absent.
ReadPackageData(srcdir) ==
    LET cfg == Tree(srcdir).cfg
    IN  IF cfg.exists /\ cfg.has_package_data THEN cfg.package_data ELSE NoDict

\* add_external_library(library): one option per command.
add_external_library(packagename, library) ==
    [ i \in 1..3 |->
        [ fn |-> "add_command_option", packagename |-> packagename,
          command |-> <<"build", "build_ext", "install">>[i],
          name |-> <<"use-system-", library>> ] ]

\* The first loop over the setup_package modules: the calls it makes, in
\* order.  get_build_options and its options, then get_external_libraries
\* and its libraries, package after package.
BuildOptionCalls(setuppkgs) ==
    Flatten([ i \in 1..Len(setuppkgs) |->
        LET pkg == setuppkgs[i].packagename
            mod == setuppkgs[i].module
        IN  ( IF "get_build_options" \in mod.funcs
              THEN <<[fn |-> "get_build_options", packagename |-> pkg]>>
                   \o [ o \in 1..Len(mod.build_options) |->
                          [ fn |-> "add_command_option", packagename |-> pkg,
                            command |-> "build",
                            name |-> <<mod.build_options[o]>> ] ]
              ELSE <<>> )
            \o
            ( IF "get_external_libraries" \in mod.funcs
              THEN <<[fn |-> "get_external_libraries", packagename |-> pkg]>>
                   \o Flatten([ l \in 1..Len(mod.external_libraries) |->
                          add_external_library(pkg, mod.external_libraries[l]) ])
              ELSE <<>> ) ])

\* The second loop: get_extensions, then get_package_data, package after
\* package.
ExtensionCalls(setuppkgs) ==
    Flatten([ i \in 1..Len(setuppkgs) |->
        LET pkg == setuppkgs[i].packagename
            mod == setuppkgs[i].module
        IN  ( IF "get_extensions" \in mod.funcs
              THEN <<[fn |-> "get_extensions", packagename |-> pkg]>> ELSE <<>> )
            \o
            ( IF "get_package_data" \in mod.funcs
              THEN <<[fn |-> "get_package_data", packagename |-> pkg]>> ELSE <<>> ) ])

\* One loop over the setup_package modules that makes all four calls.
InterleavedCalls(setuppkgs) ==
    Flatten([ i \in 1..Len(setuppkgs) |->
        BuildOptionCalls(<<setuppkgs[i]>>) \o ExtensionCalls(<<setuppkgs[i]>>) ])

\* Every call the two loops make, in the order they are made.
SetupPackageCalls(setuppkgs) ==
    BuildOptionCalls(setuppkgs) \o ExtensionCalls(setuppkgs)

\* ext_modules after the second loop: each module's get_extensions() in turn.
DeclaredExtensions(setuppkgs) ==
    Flatten([ i \in 1..Len(setuppkgs) |->
        IF "get_extensions" \in setuppkgs[i].module.funcs
        THEN setuppkgs[i].module.extensions ELSE <<>> ])

\* A second loop that keeps the value a key already has.
RECURSIVE KeepFirstPackageData(_, _)
KeepFirstPackageData(package_data, setuppkgs) ==
    IF setuppkgs = <<>> THEN package_data
    ELSE KeepFirstPackageData(
            IF "get_package_data" \in setuppkgs[1].module.funcs
            THEN DictUpdate(setuppkgs[1].module.package_data, package_data)
            ELSE package_data,
            DropFirst(setuppkgs, 1))

\* package_data after the second loop: updated with each module's
\* get_package_data() in turn.
RECURSIVE MergePackageData(_, _)
MergePackageData(package_data, setuppkgs) ==
    IF setuppkgs = <<>> THEN package_data
    ELSE MergePackageData(
            IF "get_package_data" \in setuppkgs[1].module.funcs
            THEN DictUpdate(package_data, setuppkgs[1].module.package_data)
            ELSE package_data,
            DropFirst(setuppkgs, 1))

\* No deletion at all.
KeepPlaceholders(ext_modules) == ext_modules

\* The loop deleting every extension named 'skip_cython'.
RemoveSkipCython(ext_modules) ==
    SelectSeq(ext_modules, LAMBDA ext : ext.name # SkipCython)

\* ext.extra_link_args.append('/MANIFEST') for every extension when the
\* compiler is msvc.
AddManifest(ext_modules, compiler) ==
    IF compiler = "msvc"
    THEN [ i \in 1..Len(ext_modules) |->
            [ ext_modules[i] EXCEPT
                !.extra_link_args = Append(@, <<"/MANIFEST">>) ] ]
    ELSE ext_modules

\* min(packages, key=len): the first of the names with the fewest characters.
MinByLen(packages) ==
    LET shortest(i) == \A j \in 1..Len(packages) : StrLen(packages[i]) <= StrLen(packages[j])
    IN  packages[CHOOSE i \in 1..Len(packages) :
                    shortest(i) /\ \A j \in 1..(i - 1) : ~shortest(j)]

CompilerC == <<"_compiler", ".", "c">>

\* Extension(main_package_dir + '.compiler_version',
\*           [os.path.join(main_package_dir, '_compiler.c')])
CompilerExtension(main_package_dir) ==
    Extension(main_package_dir \o <<".", "compiler_version">>,
              << PathJoin(<<main_package_dir, CompilerC>>) >>, <<>>)

\* shutil.copy(compiler.c, srcdir/main_package_dir/_compiler.c), which fails
\* when the destination directory does not exist, and then the append of
\* the compiler extension.
CopyCompiler(srcdir, main_package_dir, ext_modules) ==
    IF IsDir(PathJoin(<<srcdir, main_package_dir>>))
    THEN [ raised |-> "",
           copied |-> {PathJoin(<<srcdir, main_package_dir, CompilerC>>)},
           ext_modules |-> Append(ext_modules, CompilerExtension(main_package_dir)) ]
    ELSE [ raised |-> "FileNotFoundError", copied |-> {},
           ext_modules |-> ext_modules ]

\* The block adding the compiler module: nothing for an empty list; min()
\* of an empty package list raises ValueError.
AddCompilerModule(srcdir, packages, ext_modules) ==
    IF Len(ext_modules) > 0
    THEN IF packages = <<>>
         THEN [raised |-> "ValueError", copied |-> {}, ext_modules |-> ext_modules]
         ELSE CopyCompiler(srcdir, MinByLen(packages), ext_modules)
    ELSE [raised |-> "", copied |-> {}, ext_modules |-> ext_modules]

\* get_package_info from the removal of the 'skip_cython' placeholders on.
Finish(srcdir, exclude, found, setuppkgs, declared, discovered, kept, final) ==
    [ warned |-> exclude # {},
      searched |-> found.searched,
      cache |-> found.cache,
      excludes_too_late |-> found.excludes_too_late,
      calls |-> SetupPackageCalls(setuppkgs),
      declared |-> declared,
      discovered |-> discovered,
      kept |-> kept,
      copied |-> final.copied,
      raised |-> final.raised,
      ext_modules |-> final.ext_modules,
      packages |-> found.packages,
      package_dir |-> IF srcdir # <<".">> THEN ("" :> srcdir) ELSE NoDict,
      package_data |-> MergePackageData(ReadPackageData(srcdir), setuppkgs) ]

Compile(srcdir, exclude, found, setuppkgs, declared, discovered, kept) ==
    Finish(srcdir, exclude, found, setuppkgs, declared, discovered, kept,
           AddCompilerModule(srcdir, found.packages, kept))

\* get_package_info from the call of get_cython_extensions on.
Discover(srcdir, exclude, compiler, found, setuppkgs, declared, discovered) ==
    Compile(srcdir, exclude, found, setuppkgs, declared, discovered,
            AddManifest(RemoveSkipCython(declared \o discovered), compiler))

\* get_package_info from the second loop over the setup_package modules on.
Collect(srcdir, exclude, compiler, found, setuppkgs, declared) ==
    Discover(srcdir, exclude, compiler, found, setuppkgs, declared,
             get_cython_extensions(srcdir, found.packages, declared, <<"numpy">>))

\* get_package_info from the loops over the setup_package modules on.
Visit(srcdir, exclude, compiler, found, setuppkgs) ==
    Collect(srcdir, exclude, compiler, found, setuppkgs,
            DeclaredExtensions(setuppkgs))

\* get_package_info once the packages are found.
WithPackages(srcdir, exclude, compiler, found) ==
    Visit(srcdir, exclude, compiler, found,
          iter_setup_packages(srcdir, found.packages))

\* A get_package_info whose exclude argument is excluded from the search.
GetPackageInfoExcluding(srcdir, exclude, compiler, cache, excludes) ==
    WithPackages(srcdir, exclude, compiler,
                 find_packages(srcdir, FALSE, cache, excludes \cup exclude))

\* get_package_info(srcdir, exclude) on a module state with the given cache
\* and exclude set, built with the given compiler: what it calls, what it
\* returns or raises, and the cache and flag it leaves behind.
get_package_info(srcdir, exclude, compiler, cache, excludes) ==
    WithPackages(srcdir, exclude, compiler,
                 find_packages(srcdir, FALSE, cache, excludes))

----------------------------------------------------------------------------
(* add_exclude_packages *)

\* An add_exclude_packages that updates the set before it looks at the flag.
AddThenRaise(excludes, too_late, current) ==
    [ raised |-> IF too_late THEN "RuntimeError" ELSE "",
      exclude_packages |-> current \cup excludes ]

\* An add_exclude_packages that does not look at the flag.
AddWithoutCheck(excludes, too_late, current) ==
    [raised |-> "", exclude_packages |-> current \cup excludes]

\* add_exclude_packages(excludes) on a module state with the given flag and
\* exclude set: what it raises and the exclude set it leaves behind.
add_exclude_packages(excludes, too_late, current) ==
    IF too_late
    THEN [raised |-> "RuntimeError", exclude_packages |-> current]
    ELSE [raised |-> "", exclude_packages |-> current \cup excludes]

----------------------------------------------------------------------------
(* pkg_config *)

\* The atoms that are white space.
WhiteSpace == {" ", "\n"}

\* bytes.strip()
RECURSIVE Strip(_)
Strip(s) ==
    IF s = <<>> THEN s
    ELSE IF s[1] \in WhiteSpace THEN Strip(DropFirst(s, 1))
    ELSE IF s[Len(s)] \in WhiteSpace THEN Strip(DropLast(s, 1))
    ELSE s

\* bytes.split(): the runs of atoms between white space.
RECURSIVE SplitWhiteSpace(_)
\* The position of the first white space in s, Len(s) + 1 when there is none.
FirstWhiteSpace(s) ==
    CHOOSE i \in 1..(Len(s) + 1) :
        /\ i = Len(s) + 1 \/ s[i] \in WhiteSpace
        /\ \A j \in 1..(i - 1) : s[j] \notin WhiteSpace

SplitRun(stripped, first) ==
    <<SubSeq(stripped, 1, first - 1)>>
    \o SplitWhiteSpace(DropFirst(stripped, first - 1))

SplitStripped(stripped) ==
    IF stripped = <<>> THEN <<>> ELSE SplitRun(stripped, FirstWhiteSpace(stripped))

SplitWhiteSpace(s) == SplitStripped(Strip(s))

\* value.split('=', 1): one piece, or the pieces before and after the first '='
SplitFirstEquals(value) ==
    IF \E i \in 1..Len(value) : value[i] = "="
    THEN LET i == CHOOSE k \in 1..Len(value) :
                    value[k] = "=" /\ \A j \in 1..(k - 1) : value[j] # "="
         IN  <<SubSeq(value, 1, i - 1), DropFirst(value, i)>>
    ELSE <<value>>

\* flag_map
FlagMap ==
    (<<"-", "I">> :> "include_dirs") @@ (<<"-", "L">> :> "library_dirs")
    @@ (<<"-", "l">> :> "libraries") @@ (<<"-", "D">> :> "define_macros")
    @@ (<<"-", "U">> :> "undef_macros")

\* DistutilsExtensionArgs: result[key].append(value), the entry starting as
\* the empty list when it is absent.
ArgsAppend(result, key, value) ==
    [ k \in DOMAIN result \cup {key} |->
        IF k = key
        THEN (IF key \in DOMAIN result THEN result[key] ELSE <<>>) \o <<value>>
        ELSE result[k] ]

\* result[key].extend(values)
ArgsExtend(result, key, values) ==
    [ k \in DOMAIN result \cup {key} |->
        IF k = key
        THEN (IF key \in DOMAIN result THEN result[key] ELSE <<>>) \o values
        ELSE result[k] ]

\* The body of the loop over the tokens of the output.  The first two
\* characters of a token are its first two atoms.
AddToken(result, token) ==
    LET arg == SubSeq(token, 1, IF Len(token) < 2 THEN Len(token) ELSE 2)
        value == DropFirst(token, Len(arg))
    IN  IF arg \in DOMAIN FlagMap
        THEN ArgsAppend(result, FlagMap[arg],
                        IF arg = <<"-", "D">> THEN SplitFirstEquals(value) ELSE value)
        ELSE ArgsAppend(result, "extra_compile_args", value)

RECURSIVE AddTokens(_, _)
AddTokens(result, tokens) ==
    IF tokens = <<>> THEN result
    ELSE AddTokens(AddToken(result, tokens[1]), DropFirst(tokens, 1))

\* A pkg_config that reads the output whatever the return code is.
PkgConfigAnyReturnCode(packages, default_libraries, run) ==
    IF run.raised
    THEN [ warned |-> TRUE,
           result |-> ArgsExtend(NoDict, "libraries", default_libraries) ]
    ELSE [ warned |-> FALSE,
           result |-> AddTokens(NoDict, SplitWhiteSpace(Strip(run.stdout))) ]

\* pkg_config(packages, default_libraries) when running the command ends as
\* `run` says: with CalledProcessError raised, or with a return code and the
\* bytes written to stdout.
pkg_config(packages, default_libraries, run) ==
    IF run.raised
    THEN [ warned |-> TRUE,
           result |-> ArgsExtend(NoDict, "libraries", default_libraries) ]
    ELSE IF run.returncode # 0
    THEN [ warned |-> TRUE,
           result |-> ArgsExtend(NoDict, "libraries", default_libraries) ]
    ELSE [ warned |-> FALSE,
           result |-> AddTokens(NoDict, SplitWhiteSpace(Strip(run.stdout))) ]

----------------------------------------------------------------------------
(* The calls a setup.py makes. *)

\* The package names a setup.py excludes.
ExcludeNames == { <<"yoda">>, <<"pkg", ".", "sub">>, <<"eva">> }

\* The values of the deprecated exclude parameter.
ExcludeArgs == { {}, {<<"yoda">>} }

Compilers == {"unix", "msvc"}

Init ==
    /\ exclude_packages = {}
    /\ excludes_too_late = FALSE
    /\ package_cache = None
    /\ helpers_called = FALSE
    /\ fs \in [SrcDirs -> Trees]
    /\ call = [op |-> "import", stage |-> "returned"]

AddExcludePackages ==
    \E excludes \in {e \in SUBSET ExcludeNames : Cardinality(e) <= MaxExcludes} :
        /\ call' = [ op |-> "add_exclude_packages", stage |-> "returned",
                     excludes |-> excludes,
                     out |-> add_exclude_packages(excludes, excludes_too_late,
                                                  exclude_packages) ]
        /\ exclude_packages' = call'.out.exclude_packages
        /\ UNCHANGED <<excludes_too_late, package_cache, helpers_called, fs>>

FindPackages ==
    \E where \in SrcDirs, exclude \in ExcludeArgs, invalidate_cache \in BOOLEAN :
        /\ call' = [ op |-> "find_packages", stage |-> "returned",
                     where |-> where, exclude |-> exclude,
                     invalidate_cache |-> invalidate_cache,
                     warned |-> exclude # {},
                     out |-> find_packages(where, invalidate_cache, package_cache,
                                           exclude_packages) ]
        /\ excludes_too_late' = call'.out.excludes_too_late
        /\ package_cache' = call'.out.cache
        /\ helpers_called' = TRUE
        /\ UNCHANGED <<exclude_packages, fs>>

GetPackageInfo ==
    \E srcdir \in SrcDirs, exclude \in ExcludeArgs, compiler \in Compilers :
        /\ call' = [ op |-> "get_package_info", stage |-> "returned",
                     srcdir |-> srcdir, exclude |-> exclude, compiler |-> compiler,
                     out |-> get_package_info(srcdir, exclude, compiler,
                                              package_cache, exclude_packages) ]
        /\ excludes_too_late' = call'.out.excludes_too_late
        /\ package_cache' = call'.out.cache
        /\ helpers_called' = TRUE
        /\ UNCHANGED <<exclude_packages, fs>>

Next == AddExcludePackages \/ FindPackages \/ GetPackageInfo

Spec == Init /\ [][Next]_vars

\* The tokens pkg-config writes.
TokenPool ==
    { <<"-", "I", "/inc">>, <<"-", "L", "/lib">>, <<"-", "l", "foo">>,
      <<"-", "D", "A", "=", "1", "=", "2">>, <<"-", "D", "B">>, <<"-", "U", "C">>,
      <<"-", "p", "thread">>, <<"x">> }

\* What pkg-config writes for the given tokens: one line.
Stdout(tokens) == Join(" ", tokens) \o <<"\n">>

\* How running the command ends: the shell reports a missing executable as
\* return code 127, pkg-config an unknown package as return code 1; the
\* except clause handles subprocess.CalledProcessError.
RunResults(tokens) ==
    { [raised |-> FALSE, returncode |-> c, stdout |-> Stdout(tokens)] :
        c \in {0, 1, 127} }
    \cup { [raised |-> TRUE, returncode |-> c, stdout |-> <<>>] : c \in {1, 127} }

\* The calls of pkg_config: pkg_config reads no module state, so each run
\* starts in one call and ends when it returns.
PkgConfigCalls ==
    UNION { { [ op |-> "pkg_config", stage |-> "called",
                packages |-> << <<"libfoo">> >>,
                default_libraries |-> d, tokens |-> t, run |-> r ] :
                d \in { <<>>, << <<"foo">> >>, << <<"bar">>, <<"baz">> >> },
                r \in RunResults(t) } :
            t \in SeqsUpTo(TokenPool, MaxTokens) }

InitPkgConfig ==
    /\ exclude_packages = {}
    /\ excludes_too_late = FALSE
    /\ package_cache = None
    /\ helpers_called = FALSE
    /\ fs = [srcdir \in SrcDirs |-> TreeYoda]
    /\ call \in PkgConfigCalls

PkgConfig ==
    /\ call.op = "pkg_config"
    /\ call.stage = "called"
    /\ call' = [ op |-> "pkg_config", stage |-> "returned",
                 packages |-> call.packages,
                 default_libraries |-> call.default_libraries,
                 tokens |-> call.tokens, run |-> call.run,
                 out |-> pkg_config(call.packages, call.default_libraries, call.run) ]
    /\ UNCHANGED <<exclude_packages, excludes_too_late, package_cache,
                   helpers_called, fs>>

SpecPkgConfig == InitPkgConfig /\ [][PkgConfig]_vars

\* The dotted names of every directory of the tree under srcdir, package or
\* not, and one that does not exist.
DirNames(srcdir) ==
    { Join(".", Split(d, "/")) : d \in Range(Tree(srcdir).walk) } \cup { <<"nope">> }

\* The package lists get_cython_extensions is called with.
PackageLists(srcdir) ==
    { setuptools_find_packages(srcdir, ex) : ex \in SUBSET ExcludeNames }
    \cup { <<n>> : n \in DirNames(srcdir) }

\* The extensions a setup_package.py of the tree under srcdir declares.
DeclaredPool(srcdir) ==
    UNION { Range(import_file(PathJoin(<<srcdir, d>>)).extensions) :
              d \in DOMAIN Tree(srcdir).modules }

\* Ways of declaring a .pyx file by hand: as it is, written with a leading
\* './', through its generated .c or .cpp file, and its header (which does
\* not count).
HandDeclared(pyxfn) ==
    { Extension(<<"prev">>, <<s>>, <<>>) :
        s \in { pyxfn, <<".", "/">> \o pyxfn,
                SplitExtRoot(pyxfn) \o CSuffix, SplitExtRoot(pyxfn) \o CppSuffix,
                SplitExtRoot(pyxfn) \o <<".", "h">> } }

\* The previously declared extensions get_cython_extensions is called with.
HandDeclaredFirst(all) ==
    IF all = <<>> THEN {} ELSE HandDeclared(all[1].sources[1])

PrevPool(srcdir) ==
    DeclaredPool(srcdir)
    \cup HandDeclaredFirst(get_cython_extensions(srcdir,
                               setuptools_find_packages(srcdir, {}), <<>>, <<>>))

\* The direct calls of get_cython_extensions and iter_pyx_files on the trees
\* under the source directories.
CythonCallsOn(srcdir) ==
    { [ op |-> "get_cython_extensions", stage |-> "called",
        srcdir |-> srcdir, packages |-> packages,
        prevextensions |-> prevextensions,
        extincludedirs |-> extincludedirs ] :
        packages \in PackageLists(srcdir),
        prevextensions \in SeqsUpTo(PrevPool(srcdir), MaxPrev),
        extincludedirs \in { <<>>, <<"numpy">> } }
    \cup
    { [ op |-> "iter_pyx_files", stage |-> "called",
        package_dir |-> PackagePath(srcdir, package_name),
        package_name |-> package_name ] :
        package_name \in DirNames(srcdir) }

CythonCalls == UNION { CythonCallsOn(srcdir) : srcdir \in SrcDirs }

\* A setup.py that calls auto-discovery directly, or calls get_package_info.
InitCython ==
    /\ exclude_packages = {}
    /\ excludes_too_late = FALSE
    /\ package_cache = None
    /\ helpers_called = FALSE
    /\ fs \in [SrcDirs -> Trees]
    /\ call \in CythonCalls \cup {[op |-> "import", stage |-> "returned"]}

GetCythonExtensions ==
    /\ call.op = "get_cython_extensions"
    /\ call.stage = "called"
    /\ call' = [ op |-> "get_cython_extensions", stage |-> "returned",
                 srcdir |-> call.srcdir, packages |-> call.packages,
                 prevextensions |-> call.prevextensions,
                 extincludedirs |-> call.extincludedirs,
                 out |-> get_cython_extensions(call.srcdir, call.packages,
                                               call.prevextensions,
                                               call.extincludedirs) ]
    /\ UNCHANGED <<exclude_packages, excludes_too_late, package_cache,
                   helpers_called, fs>>

IterPyxFiles ==
    /\ call.op = "iter_pyx_files"
    /\ call.stage = "called"
    /\ call' = [ op |-> "iter_pyx_files", stage |-> "returned",
                 package_dir |-> call.package_dir,
                 package_name |-> call.package_name,
                 out |-> iter_pyx_files(call.package_dir, call.package_name) ]
    /\ UNCHANGED <<exclude_packages, excludes_too_late, package_cache,
                   helpers_called, fs>>

\* get_package_info of a setup.py that makes no direct call.
GetPackageInfoOnly ==
    /\ call.stage = "returned"
    /\ call.op \in {"import", "get_package_info"}
    /\ GetPackageInfo

\* Auto-discovery called directly and through get_package_info.
NextCython == GetCythonExtensions \/ IterPyxFiles \/ GetPackageInfoOnly

SpecCython == InitCython /\ [][NextCython]_vars

----------------------------------------------------------------------------
(* Cython auto-discovery *)

\* The .pyx files directly inside the directories of the given packages, as
\* paths relative to the working directory.
PyxFilesDirectlyIn(srcdir, packages) ==
    UNION { { RelPath(PathJoin(<<PackagePath(srcdir, packages[p]), fn>>)) :
                fn \in { f \in Range(ListFiles(PackagePath(srcdir, packages[p]))) :
                           EndsWith(f, PyxSuffix) } } :
            p \in 1..Len(packages) }

\* The extensions of exts that build file f: those with a .pyx, .c or .cpp
\* source whose suffix-stripped path is that of f.
Builders(exts, f) ==
    { i \in 1..Len(exts) :
        \E s \in Range(exts[i].sources) :
            IsCythonSource(s) /\ SourcePath(s) = SourcePath(f) }

\* The .pyx sources of the extensions of exts.
PyxSources(exts) ==
    { s \in UNION { Range(exts[i].sources) : i \in 1..Len(exts) } :
        EndsWith(s, PyxSuffix) }

\* `found` holds an extension for a .pyx file only if no extension of prev
\* builds the file, and exactly one for every .pyx file directly inside a
\* package directory that no extension of prev builds.
RegistersOnce(srcdir, packages, prev, found) ==
    /\ \A i \in 1..Len(found) :
        /\ Len(found[i].sources) = 1
        /\ found[i].sources[1] \in PyxFilesDirectlyIn(srcdir, packages)
        /\ Builders(prev, found[i].sources[1]) = {}
    /\ \A f \in PyxFilesDirectlyIn(srcdir, packages) :
        Builders(prev, f) = {}
            => Cardinality({ i \in 1..Len(found) : found[i].sources = <<f>> }) = 1

\* What both readings of the claim say of get_cython_extensions called
\* directly and called by get_package_info.
DiscoveryRegistersOnce ==
    /\ call.op = "get_cython_extensions" /\ call.stage = "returned"
        => RegistersOnce(call.srcdir, call.packages, call.prevextensions, call.out)
    /\ call.op = "get_package_info"
        => RegistersOnce(call.srcdir, call.out.packages, call.out.declared,
                         call.out.discovered)

\* C1, as stated: get_cython_extensions returns an extension for a .pyx file
\* only if no previously declared extension lists the file (by its path with
\* the suffix stripped) as a .pyx, .c or .cpp source, and exactly one for
\* every other .pyx file directly inside a package directory; hence every
\* .pyx file is built by at most one extension of the ext_modules that
\* get_package_info returns.
C1_NoSourceBuiltTwice ==
    /\ DiscoveryRegistersOnce
    /\ call.op = "get_package_info" /\ call.out.raised = ""
        => \A f \in PyxSources(call.out.ext_modules) :
              Cardinality(Builders(call.out.ext_modules, f)) <= 1

\* C1, amended: the same of get_cython_extensions; in the ext_modules that
\* get_package_info returns a .pyx file is built by at most one extension
\* unless two declared extensions list it, and an auto-discovered extension
\* is never one of two builders of a file.
C1_DiscoveryNeverDoubles ==
    /\ DiscoveryRegistersOnce
    /\ call.op = "get_package_info" /\ call.out.raised = ""
        => \A f \in PyxSources(call.out.ext_modules) :
              \/ Cardinality(Builders(call.out.ext_modules, f)) <= 1
              \/ /\ Cardinality(Builders(call.out.declared, f)) >= 2
                 /\ Builders(call.out.discovered, f) = {}

\* get_cython_extensions has returned extensions and has left out a .pyx file
\* of a package directory that a previous extension builds.
C1_Witness ==
    /\ call.op = "get_cython_extensions"
    /\ call.stage = "returned"
    /\ call.out # <<>>
    /\ \E f \in PyxFilesDirectlyIn(call.srcdir, call.packages) :
          Builders(call.prevextensions, f) # {}

----------------------------------------------------------------------------
(* The exclude set, the flag and the cache *)

C3_PackagesOfSrcdir ==
    call.op = "get_package_info" =>
        /\ call.out.packages = setuptools_find_packages(call.srcdir, exclude_packages)
        /\ \A i \in 1..Len(call.out.calls) :
              call.out.calls[i].packagename
                  \in Range(setuptools_find_packages(call.srcdir, exclude_packages))

\* C4: find_packages with invalidate_cache=False on a populated cache returns
\* the cached list, searches nothing and leaves the cache; any other call
\* searches under `where` with the current exclude set, returns what the
\* search found and stores it as the cache.
C4_FindPackagesCaches ==
    [][ call'.op = "find_packages" =>
          IF ~call'.invalidate_cache /\ package_cache.populated
          THEN /\ call'.out.packages = package_cache.packages
               /\ ~call'.out.searched
               /\ package_cache' = package_cache
          ELSE /\ call'.out.searched
               /\ call'.out.packages
                    = setuptools_find_packages(call'.where, exclude_packages)
               /\ package_cache' = Some(call'.out.packages) ]_vars

\* find_packages has answered from the cache a call for a directory whose
\* packages are not the cached ones.
C4_Witness ==
    /\ call.op = "find_packages"
    /\ ~call.out.searched
    /\ call.out.packages # setuptools_find_packages(call.where, exclude_packages)

\* The names of the packages with the fewest characters.
ShortestNames(packages) ==
    { p \in Range(packages) : \A q \in Range(packages) : StrLen(p) <= StrLen(q) }

\* The extensions of exts named '<something>.compiler_version'.
CompilerModules(exts) ==
    { i \in 1..Len(exts) : EndsWith(exts[i].name, <<".", "compiler_version">>) }

\* C5, as stated, of the calls that searched for the packages themselves:
\* when the list of extensions is non-empty after the 'skip_cython'
\* placeholders are removed, get_package_info returns it with exactly one
\* extension '<main package>.compiler_version' appended, <main package> the
\* shortest package name; when the list is empty it returns no extension and
\* copies no _compiler.c.
C5_CompilerModuleAdded ==
    call.op = "get_package_info" /\ call.out.searched =>
        IF call.out.kept # <<>>
        THEN /\ call.out.raised = ""
             /\ DropLast(call.out.ext_modules, 1) = call.out.kept
             /\ CompilerModules(call.out.ext_modules) = {Len(call.out.ext_modules)}
             /\ \E p \in ShortestNames(call.out.packages) :
                   call.out.ext_modules[Len(call.out.ext_modules)].name
                       = p \o <<".", "compiler_version">>
        ELSE /\ call.out.raised = ""
             /\ call.out.ext_modules = <<>>
             /\ call.out.copied = {}

----------------------------------------------------------------------------
(* pkg_config *)

\* The text after the first two characters of each token.
Values(tokens) == [ i \in 1..Len(tokens) |-> DropFirst(tokens[i], 2) ]

\* The values of the tokens that start with flag, in output order.
ValuesOf(tokens, flag) ==
    Values(SelectSeq(tokens, LAMBDA t : StartsWith(t, flag)))

\* result[key], the empty list when the result has no such entry.
Entry(result, key) == IF key \in DOMAIN result THEN result[key] ELSE <<>>

\* C6: when the command raises or exits with a non-zero return code,
\* pkg_config returns a result whose only entry is 'libraries', equal to
\* default_libraries; when it exits with 0, default_libraries is not added
\* and 'libraries' holds only the values of the -l tokens.
C6_DefaultLibrariesOnFailure ==
    call.op = "pkg_config" /\ call.stage = "returned" =>
        IF call.run.raised \/ call.run.returncode # 0
        THEN call.out.result = ("libraries" :> call.default_libraries)
        ELSE /\ Entry(call.out.result, "libraries")
                  = ValuesOf(call.tokens, <<"-", "l">>)
             /\ "libraries" \in DOMAIN call.out.result
                  <=> ValuesOf(call.tokens, <<"-", "l">>) # <<>>

\* pkg_config has returned the default libraries for a command that wrote
\* flags and exited with a non-zero return code.
C6_Witness ==
    /\ call.op = "pkg_config"
    /\ call.stage = "returned"
    /\ ~call.run.raised
    /\ call.run.returncode # 0
    /\ call.tokens # <<>>
    /\ call.default_libraries # <<>>
    /\ call.out.result = ("libraries" :> call.default_libraries)

\* The -D values, each split at its first '='.
MacroTuples(values) == [ i \in 1..Len(values) |-> SplitFirstEquals(values[i]) ]

\* C7, as stated: on a successful lookup every token of the output becomes
\* one entry of the result, in output order: the text after -I, -L, -l, -D
\* or -U goes to the entry of that flag (a -D value split at its first '='),
\* and every other token goes to extra_compile_args whole.
C7_EveryTokenOneEntry ==
    call.op = "pkg_config" /\ call.stage = "returned"
    /\ ~call.run.raised /\ call.run.returncode = 0 =>
        /\ \A flag \in DOMAIN FlagMap \ {<<"-", "D">>} :
              Entry(call.out.result, FlagMap[flag]) = ValuesOf(call.tokens, flag)
        /\ Entry(call.out.result, "define_macros")
              = MacroTuples(ValuesOf(call.tokens, <<"-", "D">>))
        /\ Entry(call.out.result, "extra_compile_args")
              = SelectSeq(call.tokens,
                          LAMBDA t : \A flag \in DOMAIN FlagMap : ~StartsWith(t, flag))

----------------------------------------------------------------------------
(* iter_pyx_files *)

\* The .pyx files at the top level of a directory, in listing order.
TopLevelPyx(package_dir) ==
    SelectSeq(ListFiles(package_dir), LAMBDA fn : EndsWith(fn, PyxSuffix))

\* '<package_name>.<file name without .pyx>'
NamedAfter(package_name, fn) ==
    package_name \o <<".">> \o DropLast(fn, Len(PyxSuffix))

\* `out` is one (name, path) pair for each of the files pyx of package_dir.
YieldsExactly(out, package_dir, package_name, pyx) ==
    /\ Len(out) = Len(pyx)
    /\ \A i \in 1..Len(pyx) :
        /\ out[i].extmod = NamedAfter(package_name, pyx[i])
        /\ out[i].fullfn = RelPath(package_dir \o <<"/">> \o pyx[i])

\* Every extension of `found` is named after a package of `packages` whose
\* directory directly contains its one source, and no two share a source.
NamedAfterOwnPackage(srcdir, packages, found) ==
    \A i \in 1..Len(found) :
        /\ \E p \in Range(packages) :
             \E fn \in Range(TopLevelPyx(PackagePath(srcdir, p))) :
                /\ found[i].name = NamedAfter(p, fn)
                /\ found[i].sources
                     = << RelPath(PackagePath(srcdir, p) \o <<"/">> \o fn) >>
        /\ \A j \in 1..Len(found) : found[j].sources = found[i].sources => j = i

\* C8: iter_pyx_files yields the .pyx files at the top level of the package
\* directory only, each named '<package_name>.<file name without .pyx>'; an
\* auto-discovered extension is named after the package whose directory
\* directly contains its file, a file is discovered once, and a .pyx file
\* in a directory that is no discovered package is not discovered.
C8_NamedAfterContainingPackage ==
    /\ call.op = "iter_pyx_files" /\ call.stage = "returned"
        => YieldsExactly(call.out, call.package_dir, call.package_name,
                         TopLevelPyx(call.package_dir))
    /\ call.op = "get_cython_extensions" /\ call.stage = "returned"
        => NamedAfterOwnPackage(call.srcdir, call.packages, call.out)
    /\ call.op = "get_package_info"
        => NamedAfterOwnPackage(call.srcdir, call.out.packages, call.out.discovered)

\* iter_pyx_files has yielded the files of a directory that has .pyx files
\* in a subdirectory too.
C8_Witness ==
    /\ call.op = "iter_pyx_files"
    /\ call.stage = "returned"
    /\ call.out # <<>>
    /\ \E i \in 2..Len(walk_skip_hidden(call.package_dir)) :
          \E fn \in Range(walk_skip_hidden(call.package_dir)[i].filenames) :
              EndsWith(fn, PyxSuffix)

----------------------------------------------------------------------------
(* The order of the calls into the setup_package modules *)

FirstPass == {"get_build_options", "get_external_libraries", "add_command_option"}

SecondPass == {"get_extensions", "get_package_data"}

\* The position of a package in the package list.
Position(packages, name) == CHOOSE i \in 1..Len(packages) : packages[i] = name

\* The calls a module asks for in the first pass are all in `calls`.
Registered(calls, pkg, mod) ==
    /\ "get_build_options" \in mod.funcs =>
        /\ [fn |-> "get_build_options", packagename |-> pkg] \in Range(calls)
        /\ \A o \in Range(mod.build_options) :
              [ fn |-> "add_command_option", packagename |-> pkg,
                command |-> "build", name |-> <<o>> ] \in Range(calls)
    /\ "get_external_libraries" \in mod.funcs =>
        /\ [fn |-> "get_external_libraries", packagename |-> pkg] \in Range(calls)
        /\ \A l \in Range(mod.external_libraries) :
              \A command \in {"build", "build_ext", "install"} :
                  [ fn |-> "add_command_option", packagename |-> pkg,
                    command |-> command, name |-> <<"use-system-", l>> ]
                      \in Range(calls)

\* Every first-pass call comes before every second-pass call, each pass
\* follows the package list, and the first pass misses no module.
OptionsFirst(calls, packages, setuppkgs) ==
    /\ \A i, j \in 1..Len(calls) :
          calls[i].fn \in FirstPass /\ calls[j].fn \in SecondPass => i < j
    /\ \A i, j \in 1..Len(calls) :
          /\ i < j
          /\ calls[i].fn \in FirstPass <=> calls[j].fn \in FirstPass
          => Position(packages, calls[i].packagename)
               <= Position(packages, calls[j].packagename)
    /\ \A k \in 1..Len(setuppkgs) :
          Registered(calls, setuppkgs[k].packagename, setuppkgs[k].module)

\* C9: within one get_package_info call, get_build_options and
\* get_external_libraries of every package's setup_package module are called
\* and their options registered before get_extensions or get_package_data
\* of any package is called, each pass in the order of the package list.
C9_BuildOptionsFirst ==
    call.op = "get_package_info" =>
        OptionsFirst(call.out.calls, call.out.packages,
                     iter_setup_packages(call.srcdir, call.out.packages))

\* An option of a later package was registered before get_extensions of an
\* earlier package was called.
C9_Witness ==
    /\ call.op = "get_package_info"
    /\ \E i, j \in 1..Len(call.out.calls) :
          /\ i < j
          /\ call.out.calls[i].fn = "add_command_option"
          /\ call.out.calls[j].fn = "get_extensions"
          /\ Position(call.out.packages, call.out.calls[j].packagename)
               < Position(call.out.packages, call.out.calls[i].packagename)

----------------------------------------------------------------------------
(* The 'skip_cython' placeholders *)

\* What an extension is built from, without its link arguments.
Plain(exts) ==
    [ i \in 1..Len(exts) |->
        [ name |-> exts[i].name, sources |-> exts[i].sources,
          include_dirs |-> exts[i].include_dirs ] ]

\* The .pyx sources of the 'skip_cython' extensions of exts.
SkippedPyx(exts) ==
    PyxSources(SelectSeq(exts, LAMBDA ext : ext.name = SkipCython))

\* C10: the ext_modules returned by get_package_info holds no extension named
\* 'skip_cython', holds every other declared and auto-discovered extension
\* in its original relative order, and a .pyx file listed by a 'skip_cython'
\* extension gets no auto-discovered extension.
C10_SkipCythonOnlySuppresses ==
    call.op = "get_package_info" =>
        /\ call.out.raised = "" =>
            /\ \A i \in 1..Len(call.out.ext_modules) :
                  call.out.ext_modules[i].name # SkipCython
            /\ Plain(SelectSeq(call.out.ext_modules,
                   LAMBDA ext : ~EndsWith(ext.name, <<".", "compiler_version">>)))
                = Plain(SelectSeq(call.out.declared \o call.out.discovered,
                   LAMBDA ext : ext.name # SkipCython))
        /\ \A f \in SkippedPyx(call.out.declared) :
              Builders(call.out.discovered, f) = {}

\* get_package_info has returned extensions for a tree in which a
\* 'skip_cython' extension lists a .pyx file of a package directory.
C10_Witness ==
    /\ call.op = "get_package_info"
    /\ call.out.raised = ""
    /\ call.out.ext_modules # <<>>
    /\ SkippedPyx(call.out.declared)
         \cap PyxFilesDirectlyIn(call.srcdir, call.out.packages) # {}

----------------------------------------------------------------------------
(* The exclude parameter *)

\* C11: a call of find_packages or get_package_info with a non-empty exclude
\* returns what the same call with an empty exclude returns from the same
\* module state, and leaves the same cache and exclude set; it differs by
\* the deprecation warning only.  A package search leaves out the names
\* registered through add_exclude_packages and no others, and only
\* add_exclude_packages changes the exclude set.
C11_ExcludeParameterIgnored ==
    [][ /\ call'.op = "find_packages" /\ call'.exclude # {} =>
            /\ call'.warned
            /\ call'.out = find_packages(call'.where, call'.invalidate_cache,
                                         package_cache, exclude_packages)
            /\ package_cache' = call'.out.cache
        /\ call'.op = "get_package_info" /\ call'.exclude # {} =>
            /\ call'.out.warned
            /\ [call'.out EXCEPT !.warned = FALSE]
                 = get_package_info(call'.srcdir, {}, call'.compiler,
                                    package_cache, exclude_packages)
            /\ package_cache' = call'.out.cache
        /\ call'.op = "find_packages" /\ call'.out.searched =>
            call'.out.packages
              = setuptools_find_packages(call'.where, exclude_packages)
        /\ call'.op = "get_package_info" /\ call'.out.searched =>
            call'.out.packages
              = setuptools_find_packages(call'.srcdir, exclude_packages)
        /\ exclude_packages' # exclude_packages
             => call'.op = "add_exclude_packages" ]_vars

\* get_package_info has searched with a non-empty exclude argument and has
\* returned a package that the argument names.
C11_Witness ==
    /\ call.op = "get_package_info"
    /\ call.out.searched
    /\ call.out.warned
    /\ call.exclude \cap Range(call.out.packages) # {}

----------------------------------------------------------------------------
(* package_data *)

\* The modules, by position, whose get_package_data() declares key k.
Declarers(setuppkgs, k) ==
    { i \in 1..Len(setuppkgs) :
        /\ "get_package_data" \in setuppkgs[i].module.funcs
        /\ k \in DOMAIN setuppkgs[i].module.package_data }

\* The largest member of a non-empty set of numbers.
Latest(S) == CHOOSE m \in S : \A n \in S : n <= m

\* The value the last declarer gives key k.
LastDeclared(setuppkgs, k, last) == setuppkgs[last].module.package_data[k]

\* result holds the keys of setup.cfg and of every get_package_data(); a
\* key some module declares has the value of the last module declaring it,
\* every other key its setup.cfg value.
LastWins(result, cfg, setuppkgs) ==
    /\ DOMAIN result
         = DOMAIN cfg \cup { k \in UNION { DOMAIN setuppkgs[i].module.package_data :
                                              i \in 1..Len(setuppkgs) } :
                               Declarers(setuppkgs, k) # {} }
    /\ \A k \in DOMAIN result :
          IF Declarers(setuppkgs, k) = {}
          THEN result[k] = cfg[k]
          ELSE result[k] = LastDeclared(setuppkgs, k, Latest(Declarers(setuppkgs, k)))

\* C12: the package_data that get_package_info returns starts from the
\* package_data of srcdir/setup.cfg (empty when the file or the option is
\* absent) and is updated with each package's get_package_data() in package
\* order: a key declared more than once has the value of the last package
\* declaring it, replacing the setup.cfg value and earlier values, and a
\* key no package declares keeps its setup.cfg value.
C12_PackageDataLastWins ==
    call.op = "get_package_info" /\ call.out.raised = "" =>
        LastWins(call.out.package_data,
                 IF Tree(call.srcdir).cfg.exists
                    /\ Tree(call.srcdir).cfg.has_package_data
                 THEN Tree(call.srcdir).cfg.package_data ELSE NoDict,
                 iter_setup_packages(call.srcdir, call.out.packages))

\* get_package_info has returned a package_data in which a key of setup.cfg
\* that two packages declare has another value than in setup.cfg, and a key
\* of setup.cfg that no package declares is kept.
C12_Witness ==
    /\ call.op = "get_package_info"
    /\ call.out.raised = ""
    /\ \E k \in DOMAIN ReadPackageData(call.srcdir) :
          /\ Cardinality(Declarers(iter_setup_packages(call.srcdir,
                                       call.out.packages), k)) >= 2
          /\ call.out.package_data[k] # ReadPackageData(call.srcdir)[k]
    /\ \E k \in DOMAIN ReadPackageData(call.srcdir) :
          /\ Declarers(iter_setup_packages(call.srcdir, call.out.packages), k) = {}
          /\ call.out.package_data[k] = ReadPackageData(call.srcdir)[k]

----------------------------------------------------------------------------
(* The module state *)

\* The directory the most recent call was asked to search.
WhereOf(c) == IF c.op = "find_packages" THEN c.where ELSE c.srcdir

\* A populated cache comes with the flag set, and holds the package search
\* of one of the source directories with the current exclude set.
CacheState ==
    package_cache.populated =>
        /\ excludes_too_late
        /\ \E where \in SrcDirs :
              package_cache.packages
                = setuptools_find_packages(where, exclude_packages)

\* The flag is never cleared, the exclude set does not change once it is
\* set, the source trees stay as they are; a call that searches leaves in
\* the cache the search of its own directory with the current exclude set,
\* and every other step leaves the cache as it is.
CacheStep ==
    /\ excludes_too_late => excludes_too_late'
    /\ excludes_too_late => exclude_packages' = exclude_packages
    /\ fs' = fs
    /\ IF call'.op \in {"find_packages", "get_package_info"} /\ call'.out.searched
       THEN package_cache'
              = Some(setuptools_find_packages(WhereOf(call'), exclude_packages'))
       ELSE package_cache' = package_cache

\* C13: in every reachable state a populated cache implies the flag; the
\* flag, once set, is never cleared; the exclude set never changes after
\* the flag is set; and a populated cache is the package search of the
\* `where` of the most recent call that searched, with the current exclude
\* set applied: each searching call stores that search, and between two
\* searching calls neither the cache, the exclude set nor the trees change.
C13_CacheFollowsLastSearch == [](CacheState) /\ [][CacheStep]_vars

\* find_packages has repeated the search with invalidate_cache while names
\* are excluded, and the other source directory holds other packages.
C13_Witness ==
    /\ call.op = "find_packages"
    /\ call.invalidate_cache
    /\ call.out.searched
    /\ exclude_packages # {}
    /\ package_cache = Some(setuptools_find_packages(call.where, exclude_packages))
    /\ \E where \in SrcDirs :
          setuptools_find_packages(where, exclude_packages) # package_cache.packages

====
